---- MODULE Spec2Model ----
(***************************************************************************)
(* dorky (src/main.go): reads candidate words from the arguments or from   *)
(* standard input, derives whitespace variants, and searches GitHub and    *)
(* GitLab for organizations, repositories and users, printing the results  *)
(* and saving them to one file per (platform, category).                   *)
(*                                                                         *)
(* A Go string is modelled as a sequence of one-character strings, so      *)
(* that the regular expressions and strings.* calls are computed           *)
(* character by character.                                                 *)
(***************************************************************************)
EXTENDS Integers, Sequences, FiniteSets, TLC

\* ------------------------------------------------------------------ bounds
\* Largest number of failures (remote errors, os.Create failures, a stdin
\* read error) the environment injects into one run.
MaxFaults == 1
\* Largest number of input tokens of one run of the word reader.
MaxTokens == 2
\* The value of -max in the runs: the page size of every search.
MaxResults == 2

\* ----------------------------------------------------------- string helpers
RECURSIVE Concat(_)
\* The concatenation of a sequence of strings.
Concat(ss) == IF ss = <<>> THEN <<>> ELSE Head(ss) \o Concat(Tail(ss))

\* s starts with p.
HasPrefix(s, p) == Len(s) >= Len(p) /\ SubSeq(s, 1, Len(p)) = p

\* s without its first n characters.
Drop(s, n) == SubSeq(s, n + 1, Len(s))

\* strings.Contains(s, sub).
Contains(s, sub) ==
    \E i \in 0..(Len(s) - Len(sub)) : SubSeq(s, i + 1, i + Len(sub)) = sub

\* The vertical tab U+000B, which a TLA+ string cannot hold, as one character.
VT == "<VT>"

\* The class \s of the regexp package: [\t\n\f\r ].
RegexpSpace == {" ", "\t", "\n", "\f", "\r"}

\* The white space of unicode.IsSpace within the characters used here: the
\* class \s and the vertical tab.
UnicodeSpace == RegexpSpace \cup {VT}

\* A character that spaceRegexp matches.
IsSpace(c) == c \in RegexpSpace

RECURSIVE ReplaceAllSpace(_, _)
\* spaceRegexp.ReplaceAllString(word, repl) with spaceRegexp = \s+ : every
\* maximal run of whitespace is replaced by repl.
ReplaceAllSpace(word, repl) ==
    IF word = <<>> THEN <<>>
    ELSE IF IsSpace(Head(word))
         THEN IF Len(word) > 1 /\ IsSpace(word[2])
              THEN ReplaceAllSpace(Tail(word), repl)
              ELSE repl \o ReplaceAllSpace(Tail(word), repl)
         ELSE <<Head(word)>> \o ReplaceAllSpace(Tail(word), repl)

RECURSIVE SplitOn(_, _)
\* strings.Split(s, sep) for a one-character separator: the pieces between
\* the occurrences of sep, n occurrences giving n + 1 pieces.
SplitOn(s, sep) ==
    IF \A i \in 1..Len(s) : s[i] # sep THEN <<s>>
    ELSE LET k == CHOOSE i \in 1..Len(s) :
                     s[i] = sep /\ \A j \in 1..(i - 1) : s[j] # sep
         IN  <<SubSeq(s, 1, k - 1)>> \o SplitOn(Drop(s, k), sep)

RECURSIVE TrimLeft(_)
TrimLeft(s) ==
    IF s # <<>> /\ Head(s) \in UnicodeSpace THEN TrimLeft(Tail(s)) ELSE s

RECURSIVE TrimRight(_)
TrimRight(s) ==
    IF s # <<>> /\ s[Len(s)] \in UnicodeSpace
    THEN TrimRight(SubSeq(s, 1, Len(s) - 1)) ELSE s

\* strings.TrimSpace(s): leading and trailing white space, as unicode.IsSpace
\* defines it, removed.
TrimSpace(s) == TrimRight(TrimLeft(s))

\* The longest prefix of s without a slash: what [^/]+ consumes.
RECURSIVE UntilSlash(_)
UntilSlash(s) ==
    IF s = <<>> \/ Head(s) = "/" THEN <<>> ELSE <<Head(s)>> \o UntilSlash(Tail(s))

\* ------------------------------------------------------- word normalisation
Http == <<"h", "t", "t", "p">>
SchemeSep == <<":", "/", "/">>
Www == <<"w", "w", "w", ".">>

\* The length of the match of ^https?:// at the start of word, 0 for none.
SchemeLen(word) ==
    IF HasPrefix(word, Http \o <<"s">> \o SchemeSep) THEN 8
    ELSE IF HasPrefix(word, Http \o SchemeSep) THEN 7
    ELSE 0

\* cleanWord: the first capturing group of ^https?://(?:www\.)?([^/]+) when
\* the pattern matches, the word itself otherwise. The optional www. is
\* taken when a host follows it, and left to the group when none does.
cleanWord(word) ==
    LET rest == Drop(word, SchemeLen(word)) IN
    IF SchemeLen(word) = 0 THEN word
    ELSE IF HasPrefix(rest, Www) /\ UntilSlash(Drop(rest, 4)) # <<>>
         THEN UntilSlash(Drop(rest, 4))
         ELSE IF UntilSlash(rest) # <<>> THEN UntilSlash(rest) ELSE word

\* removeWhitespace with an underscore in place of the hyphen.
removeWhitespace_underscore(word) ==
    ReplaceAllSpace(word, <<>>) \o <<"\n">> \o ReplaceAllSpace(word, <<"_">>)

\* removeWhitespace: the word without whitespace, a newline, the word with
\* each whitespace run replaced by a hyphen.
removeWhitespace(word) ==
    ReplaceAllSpace(word, <<>>) \o <<"\n">> \o ReplaceAllSpace(word, <<"-">>)

\* addWordToMap: the key is added unless it exists.
addWordToMap(words, word) == IF word \in words THEN words ELSE words \cup {word}

RECURSIVE AddAll(_, _)
\* The loop of processWord over the split lines.
AddAll(words, lines) ==
    IF lines = <<>> THEN words
    ELSE AddAll(addWordToMap(words, Head(lines)), Tail(lines))

\* processWord: the word set after one token.
processWord(word, words, clean) ==
    LET w == IF clean THEN cleanWord(word) ELSE word
    IN  AddAll(addWordToMap(words, w), SplitOn(removeWhitespace(w), "\n"))

\* ------------------------------------------------------------------- state
VARIABLES
    cfg,        \* the parsed flags (config, read-only after flag.Parse)
    env,        \* which access tokens the environment holds
    args,       \* flag.Args(): the positional arguments
    stdin,      \* the lines of standard input, as bufio.Scanner yields them
    pc,         \* the position of the single flow of control
    idx,        \* the number of tokens readAndCleanWords has consumed
    words,      \* the word set (the keys of the map)
    clients,    \* the platforms whose client was created
    ghErr,      \* createGitHubClient returned an error
    glErr,      \* createGitLabClient returned an error
    todo,       \* the words the range loop has not visited yet
    cur,        \* the word of the current iteration
    inflight,   \* the remote calls awaiting their response
    callLog,    \* every remote call issued, in order, with its outcome
    files,      \* the output files in the working directory
    stdout,     \* the lines written to standard output
    exitCode,   \* the exit status, -1 while running
    faults      \* the failures injected so far

vars == <<cfg, env, args, stdin, pc, idx, words, clients, ghErr, glErr, todo,
          cur, inflight, callLog, files, stdout, exitCode, faults>>

GitHub == "github"
GitLab == "gitlab"
Platforms == {GitHub, GitLab}
Categories == {"org", "repo", "user"}

\* The fixed file name of a (platform, category) pair.
FileOf(plat, cat) ==
    CASE plat = GitHub /\ cat = "org"  -> "github_organizations.txt"
      [] plat = GitHub /\ cat = "repo" -> "github_repositories.txt"
      [] plat = GitHub /\ cat = "user" -> "github_users.txt"
      [] plat = GitLab /\ cat = "org"  -> "gitlab_groups.txt"
      [] plat = GitLab /\ cat = "user" -> "gitlab_users.txt"
      [] plat = GitLab /\ cat = "repo" -> "gitlab_projects.txt"

FileNames == {FileOf(p, c) : p \in Platforms, c \in Categories}

\* The flag of a category.
CatFlag(cat) ==
    CASE cat = "org" -> cfg.orgFlag
      [] cat = "repo" -> cfg.repoFlag
      [] cat = "user" -> cfg.userFlag

\* One line of standard output: its kind, its fixed text, its argument.
Line(k, msg, text) == [k |-> k, msg |-> msg, text |-> text]

\* verbosePrint: the line is printed when -v is set.
verbosePrint(msg, text) ==
    IF cfg.verboseFlag THEN <<Line("verbose", msg, text)>> ELSE <<>>

\* printResults without the test of -s: the header is always printed.
printResults_alwaysHeader(header, query, results) ==
    <<Line("blank", "", <<>>), Line("header", header, query)>>
        \o [i \in 1..Len(results) |-> Line("bullet", "- ", results[i])]

\* printResults: the bare names in simple mode; otherwise an empty line, the
\* header and the names behind a bullet.
printResults(header, query, results) ==
    IF cfg.simpleFlag
    THEN [i \in 1..Len(results) |-> Line("name", "", results[i])]
    ELSE <<Line("blank", "", <<>>), Line("header", header, query)>>
         \o [i \in 1..Len(results) |-> Line("bullet", "- ", results[i])]

\* The loop f.WriteString(name + "\n") over the results.
WriteLines(results) ==
    Concat([i \in 1..Len(results) |-> results[i] \o <<"\n">>])

\* The names the providers know, in the providers' ranking order.
Directory ==
    << <<"z", "a", "b">>, <<"a", "b">>, <<"a", "-", "b">>, <<"a", "b", "c">> >>

\* The first n elements of s.
Take(s, n) == SubSeq(s, 1, IF n < Len(s) THEN n ELSE Len(s))

\* The provider's answer to a search: the names matching the query, in
\* ranking order, one page of at most PerPage = maxResults items.
Provider(plat, cat, query, maxResults) ==
    Take(SelectSeq(Directory, LAMBDA name : Contains(name, query)), maxResults)

\* ------------------------------------------------------------------- inputs
\* Every combination of the boolean flags, with -max MaxResults.
Configs ==
    [orgFlag : BOOLEAN, repoFlag : BOOLEAN, userFlag : BOOLEAN,
     maxFlag : {MaxResults}, cleanFlag : BOOLEAN, ghOnlyFlag : BOOLEAN,
     glOnlyFlag : BOOLEAN, simpleFlag : BOOLEAN, verboseFlag : BOOLEAN]

\* Whether each access token is set (non-empty) in the environment.
Envs == [GITHUB_ACCESS_TOKEN : BOOLEAN, GITLAB_ACCESS_TOKEN : BOOLEAN]

AB == <<"a", "b">>
A_B == <<"a", " ", "b">>
AhB == <<"a", "-", "b">>
UrlAB == Http \o SchemeSep \o <<"a", "b", "/", "x">>

\* The inputs of the full program: a repeated word, a URL next to its host,
\* padded lines of standard input, and no input at all.
Inputs ==
    { [args |-> <<AB, AB>>, stdin |-> <<>>],
      [args |-> <<UrlAB, AB>>, stdin |-> <<>>],
      [args |-> <<>>, stdin |-> << <<" ">> \o AB \o <<" ">>, AhB >>],
      [args |-> <<>>, stdin |-> <<>>] }

\* The same with a phrase next to one of its own variants: three words.
PhraseInputs == Inputs \cup {[args |-> <<A_B, AhB>>, stdin |-> <<>>]}

\* The working directory before the run: the GitHub files are left over
\* from an earlier run, the GitLab files do not exist.
Old == <<"o", "l", "d", "\n">>
NoFile == [exists |-> FALSE, data |-> <<>>]
InitialFiles ==
    [f \in FileNames |->
        IF f \in {FileOf(GitHub, c) : c \in Categories}
        THEN [exists |-> TRUE, data |-> Old] ELSE NoFile]

\* The state when main starts, for the given flags and inputs.
InitWith(configs, inputs) ==
    /\ cfg \in configs
    /\ env \in Envs
    /\ \E in \in inputs : args = in.args /\ stdin = in.stdin
    /\ pc = "main"
    /\ idx = 0
    /\ words = {}
    /\ clients = {}
    /\ ghErr = FALSE
    /\ glErr = FALSE
    /\ todo = {}
    /\ cur = <<>>
    /\ inflight = {}
    /\ callLog = <<>>
    /\ files = InitialFiles
    /\ stdout = <<>>
    /\ exitCode = -1
    /\ faults = 0

\* The full program: every flag combination on every input.
Init == InitWith(Configs, Inputs)

\* ------------------------------------------------------------------ actions
\* validateFlags without os.Exit: the message is printed and main goes on.
validateFlags_noExit ==
    /\ pc = "main"
    /\ IF ~(cfg.orgFlag \/ cfg.repoFlag \/ cfg.userFlag)
       THEN stdout' = Append(stdout, Line("usage",
                   "At least one search flag (-o, -r, or -u) must be specified", <<>>))
       ELSE stdout' = stdout \o verbosePrint("Flags validated.", <<>>)
                             \o verbosePrint("Reading and cleaning words...", <<>>)
    /\ pc' = "read"
    /\ UNCHANGED <<cfg, env, args, stdin, idx, words, clients, ghErr, glErr, todo,
                   cur, inflight, callLog, files, exitCode, faults>>

\* main up to the call of readAndCleanWords: validateFlags exits with
\* status 1 when no category flag is set.
validateFlags ==
    /\ pc = "main"
    /\ IF ~(cfg.orgFlag \/ cfg.repoFlag \/ cfg.userFlag)
       THEN /\ stdout' = Append(stdout, Line("usage",
                   "At least one search flag (-o, -r, or -u) must be specified", <<>>))
            /\ exitCode' = 1
            /\ pc' = "exited"
       ELSE /\ stdout' = stdout \o verbosePrint("Flags validated.", <<>>)
                                \o verbosePrint("Reading and cleaning words...", <<>>)
            /\ exitCode' = exitCode
            /\ pc' = "read"
    /\ UNCHANGED <<cfg, env, args, stdin, idx, words, clients, ghErr, glErr, todo,
                   cur, inflight, callLog, files, faults>>

\* readAndCleanWords, one positional argument.
readAndCleanWords_arg ==
    /\ pc = "read"
    /\ Len(args) > 0
    /\ idx < Len(args)
    /\ words' = processWord(args[idx + 1], words, cfg.cleanFlag)
    /\ idx' = idx + 1
    /\ UNCHANGED <<cfg, env, args, stdin, pc, clients, ghErr, glErr, todo, cur,
                   inflight, callLog, files, stdout, exitCode, faults>>

\* readAndCleanWords, one line of standard input: the line is trimmed.
readAndCleanWords_line ==
    /\ pc = "read"
    /\ Len(args) = 0
    /\ idx < Len(stdin)
    /\ words' = processWord(TrimSpace(stdin[idx + 1]), words, cfg.cleanFlag)
    /\ idx' = idx + 1
    /\ UNCHANGED <<cfg, env, args, stdin, pc, clients, ghErr, glErr, todo, cur,
                   inflight, callLog, files, stdout, exitCode, faults>>

\* checkScannerError: reading standard input failed after idx lines; the
\* process exits with status 1.
checkScannerError ==
    /\ pc = "read"
    /\ Len(args) = 0
    /\ faults < MaxFaults
    /\ faults' = faults + 1
    /\ stdout' = Append(stdout, Line("error", "Error reading stdin", <<>>))
    /\ exitCode' = 1
    /\ pc' = "exited"
    /\ UNCHANGED <<cfg, env, args, stdin, idx, words, clients, ghErr, glErr, todo,
                   cur, inflight, callLog, files>>

\* readAndCleanWords returns the word set to main.
readAndCleanWords ==
    /\ pc = "read"
    /\ idx = (IF Len(args) > 0 THEN Len(args) ELSE Len(stdin))
    /\ stdout' = stdout \o verbosePrint("Words cleaned.", <<>>)
                        \o verbosePrint("Searching platforms...", <<>>)
    /\ pc' = "clients"
    /\ UNCHANGED <<cfg, env, args, stdin, idx, words, clients, ghErr, glErr, todo,
                   cur, inflight, callLog, files, exitCode, faults>>

\* createGitHubClient: an error when the token is empty.
createGitHubClient == IF env.GITHUB_ACCESS_TOKEN THEN "client" ELSE "error"

\* createGitLabClient: an error when the token is empty (gitlab.NewClient
\* with a token and no options does not fail).
createGitLabClient == IF env.GITLAB_ACCESS_TOKEN THEN "client" ELSE "error"

\* searchPlatforms before its loop: both clients are created, whatever the
\* platform flags are, and each failure is printed.
searchPlatforms ==
    /\ pc = "clients"
    /\ ghErr' = (createGitHubClient = "error")
    /\ glErr' = (createGitLabClient = "error")
    /\ clients' = {p \in Platforms :
                      \/ p = GitHub /\ createGitHubClient = "client"
                      \/ p = GitLab /\ createGitLabClient = "client"}
    /\ stdout' = stdout
          \o (IF createGitHubClient = "error"
              THEN <<Line("error", "Error creating GitHub client", <<>>)>> ELSE <<>>)
          \o (IF createGitLabClient = "error"
              THEN <<Line("error", "Error creating GitLab client", <<>>)>> ELSE <<>>)
    /\ todo' = words
    /\ pc' = "loop"
    /\ UNCHANGED <<cfg, env, args, stdin, idx, words, cur, inflight, callLog,
                   files, exitCode, faults>>

\* The range loop visiting a word without moving past it.
searchPlatforms_range_revisit ==
    /\ pc = "loop"
    /\ IF todo = {}
       THEN /\ stdout' = stdout \o verbosePrint("Platform search completed.", <<>>)
            /\ exitCode' = 0
            /\ pc' = "done"
            /\ UNCHANGED <<todo, cur>>
       ELSE /\ \E w \in todo : cur' = w /\ todo' = todo
            /\ pc' = "github"
            /\ UNCHANGED <<stdout, exitCode>>
    /\ UNCHANGED <<cfg, env, args, stdin, idx, words, clients, ghErr, glErr,
                   inflight, callLog, files, faults>>

\* The range loop of searchPlatforms: the next word, in any order; after
\* the last one main prints its last message and the process exits with 0.
searchPlatforms_range ==
    /\ pc = "loop"
    /\ IF todo = {}
       THEN /\ stdout' = stdout \o verbosePrint("Platform search completed.", <<>>)
            /\ exitCode' = 0
            /\ pc' = "done"
            /\ UNCHANGED <<todo, cur>>
       ELSE /\ \E w \in todo : cur' = w /\ todo' = todo \ {w}
            /\ pc' = "github"
            /\ UNCHANGED <<stdout, exitCode>>
    /\ UNCHANGED <<cfg, env, args, stdin, idx, words, clients, ghErr, glErr,
                   inflight, callLog, files, faults>>

\* The loop body, first half, testing -gh where -gl is meant.
searchPlatforms_github_wrongFlag ==
    /\ pc = "github"
    /\ IF ~cfg.ghOnlyFlag /\ ~ghErr
       THEN /\ stdout' = stdout \o verbosePrint("Searching GitHub for word", cur)
            /\ pc' = "gh_org"
       ELSE /\ stdout' = stdout
            /\ pc' = "gitlab"
    /\ UNCHANGED <<cfg, env, args, stdin, idx, words, clients, ghErr, glErr, todo,
                   cur, inflight, callLog, files, exitCode, faults>>

\* The loop body, first half: GitHub is searched unless -gl is set or the
\* client could not be created.
searchPlatforms_github ==
    /\ pc = "github"
    /\ IF ~cfg.glOnlyFlag /\ ~ghErr
       THEN /\ stdout' = stdout \o verbosePrint("Searching GitHub for word", cur)
            /\ pc' = "gh_org"
       ELSE /\ stdout' = stdout
            /\ pc' = "gitlab"
    /\ UNCHANGED <<cfg, env, args, stdin, idx, words, clients, ghErr, glErr, todo,
                   cur, inflight, callLog, files, exitCode, faults>>

\* The loop body, second half: GitLab is searched unless -gh is set or the
\* client could not be created.
searchPlatforms_gitlab ==
    /\ pc = "gitlab"
    /\ IF ~cfg.ghOnlyFlag /\ ~glErr
       THEN /\ stdout' = stdout \o verbosePrint("Searching GitLab for word", cur)
            /\ pc' = "gl_groups"
       ELSE /\ stdout' = stdout
            /\ pc' = "loop"
    /\ UNCHANGED <<cfg, env, args, stdin, idx, words, clients, ghErr, glErr, todo,
                   cur, inflight, callLog, files, exitCode, faults>>

\* A remote call: the platform, the endpoint's category and the query.
Call(plat, cat, query) == [plat |-> plat, cat |-> cat, word |-> query]

\* The log entry of a call that was just issued.
Issued(plat, cat, query) ==
    [plat |-> plat, cat |-> cat, word |-> query, status |-> "pending",
     create |-> "none"]

\* The log with its last entry, the call in flight, completed.
Completed(status, create) ==
    [callLog EXCEPT ![Len(callLog)] = [@ EXCEPT !.status = status, !.create = create]]

\* The request of one search function: the call goes out and the flow
\* blocks until its response.
SendRequest(plat, cat, waitpc) ==
    /\ inflight' = inflight \cup {Call(plat, cat, cur)}
    /\ callLog' = Append(callLog, Issued(plat, cat, cur))
    /\ pc' = waitpc

\* What the environment does to one call: the response arrives and the file
\* can be created, the call returns an error, or the response arrives and
\* os.Create fails.
Outcomes == {"ok", "err", "nocreate"}

\* The file opened for appending instead of being truncated.
CreateAndWrite_append(f, results) ==
    [files EXCEPT ![f] = [exists |-> TRUE, data |-> @.data \o WriteLines(results)]]

\* os.Create(f) followed by the write loop: the file is truncated and holds
\* the names, one per line.
CreateAndWrite(f, results) ==
    [files EXCEPT ![f] = [exists |-> TRUE, data |-> WriteLines(results)]]

\* What one search function prints after its call returned: on an error
\* the diagnostic; otherwise, when report holds, the results, followed by
\* the error of os.Create when the file cannot be created.
Printed(f, errmsg, header, report, out, results) ==
    CASE out = "err" -> <<Line("error", errmsg, <<>>)>>
      [] out = "ok" -> IF report THEN printResults(header, cur, results) ELSE <<>>
      [] out = "nocreate" ->
           printResults(header, cur, results) \o <<Line("error", "open", <<>>)>>

\* os.Create called before the error of the remote call is tested: a failed
\* call leaves an empty file.
Saved_beforeErrorCheck(f, report, out, results) ==
    IF out = "ok" /\ report THEN CreateAndWrite(f, results)
    ELSE IF out = "err" /\ report THEN CreateAndWrite(f, <<>>)
    ELSE files

\* The files after one search function: the pair's file is written when
\* the call succeeded, report holds and os.Create succeeded.
Saved(f, report, out, results) ==
    IF out = "ok" /\ report THEN CreateAndWrite(f, results) ELSE files

\* The body of a search function after its remote call returned. On an
\* error the function returns after the diagnostic. os.Create is reached
\* only when report holds.
SearchBody(plat, cat, errmsg, header, report, out) ==
    LET results == Provider(plat, cat, cur, cfg.maxFlag)
        f == FileOf(plat, cat)
    IN  /\ out # "ok" => faults < MaxFaults
        /\ out = "nocreate" => report
        /\ faults' = IF out = "ok" THEN faults ELSE faults + 1
        /\ stdout' = stdout \o Printed(f, errmsg, header, report, out, results)
        /\ files' = Saved(f, report, out, results)

\* A search function of one remote call returns: the call is complete and
\* the flow goes on at nextpc.
SearchReturn(plat, cat, errmsg, header, out, nextpc) ==
    /\ SearchBody(plat, cat, errmsg, header, TRUE, out)
    /\ inflight' = inflight \ {Call(plat, cat, cur)}
    /\ callLog' = Completed(IF out = "err" THEN "err" ELSE "ok",
                            IF out = "ok" THEN "ok"
                            ELSE IF out = "nocreate" THEN "fail" ELSE "none")
    /\ pc' = nextpc

\* searchGitHub starting the organization search without waiting for it.
searchGitHub_org_async ==
    /\ pc = "gh_org"
    /\ IF cfg.orgFlag
       THEN SendRequest(GitHub, "org", "gh_repo")
       ELSE pc' = "gh_repo" /\ UNCHANGED <<inflight, callLog>>
    /\ UNCHANGED <<cfg, env, args, stdin, idx, words, clients, ghErr, glErr, todo,
                   cur, files, stdout, exitCode, faults>>

\* searchGitHub, -o: searchGitHubOrganizations sends its request.
searchGitHub_org ==
    /\ pc = "gh_org"
    /\ IF cfg.orgFlag
       THEN SendRequest(GitHub, "org", "gh_org_wait")
       ELSE pc' = "gh_repo" /\ UNCHANGED <<inflight, callLog>>
    /\ UNCHANGED <<cfg, env, args, stdin, idx, words, clients, ghErr, glErr, todo,
                   cur, files, stdout, exitCode, faults>>

\* searchGitHubOrganizations after client.Search.Users returned.
searchGitHubOrganizations ==
    /\ pc = "gh_org_wait"
    /\ \E out \in Outcomes :
          SearchReturn(GitHub, "org", "Error searching organizations",
                       "GitHub organizations matching", out, "gh_repo")
    /\ UNCHANGED <<cfg, env, args, stdin, idx, words, clients, ghErr, glErr, todo,
                   cur, exitCode>>

\* searchGitHub, -r: searchGitHubRepositories sends its request.
searchGitHub_repo ==
    /\ pc = "gh_repo"
    /\ IF cfg.repoFlag
       THEN SendRequest(GitHub, "repo", "gh_repo_wait")
       ELSE pc' = "gh_user" /\ UNCHANGED <<inflight, callLog>>
    /\ UNCHANGED <<cfg, env, args, stdin, idx, words, clients, ghErr, glErr, todo,
                   cur, files, stdout, exitCode, faults>>

\* searchGitHubRepositories after client.Search.Repositories returned.
searchGitHubRepositories ==
    /\ pc = "gh_repo_wait"
    /\ \E out \in Outcomes :
          SearchReturn(GitHub, "repo", "Error searching repositories",
                       "GitHub repositories matching", out, "gh_user")
    /\ UNCHANGED <<cfg, env, args, stdin, idx, words, clients, ghErr, glErr, todo,
                   cur, exitCode>>

\* searchGitHub, -u: searchGitHubUsers sends its request.
searchGitHub_user ==
    /\ pc = "gh_user"
    /\ IF cfg.userFlag
       THEN SendRequest(GitHub, "user", "gh_user_wait")
       ELSE pc' = "gitlab" /\ UNCHANGED <<inflight, callLog>>
    /\ UNCHANGED <<cfg, env, args, stdin, idx, words, clients, ghErr, glErr, todo,
                   cur, files, stdout, exitCode, faults>>

\* searchGitHubUsers after client.Search.Users returned.
searchGitHubUsers ==
    /\ pc = "gh_user_wait"
    /\ \E out \in Outcomes :
          SearchReturn(GitHub, "user", "Error searching users",
                       "GitHub users matching", out, "gitlab")
    /\ UNCHANGED <<cfg, env, args, stdin, idx, words, clients, ghErr, glErr, todo,
                   cur, exitCode>>

\* searchGitLab, -o or -u: searchGitLabGroupsAndUsers sends its first
\* request, the group list.
searchGitLab_groups ==
    /\ pc = "gl_groups"
    /\ IF cfg.orgFlag \/ cfg.userFlag
       THEN SendRequest(GitLab, "org", "gl_groups_wait")
       ELSE pc' = "gl_projects" /\ UNCHANGED <<inflight, callLog>>
    /\ UNCHANGED <<cfg, env, args, stdin, idx, words, clients, ghErr, glErr, todo,
                   cur, files, stdout, exitCode, faults>>

\* searchGitLabGroupsAndUsers after client.Groups.ListGroups returned: on
\* an error, or when gitlab_groups.txt cannot be created, the function
\* returns; otherwise the groups are reported when -o is set and the user
\* list is requested, whatever the flags are.
searchGitLabGroupsAndUsers_groups ==
    /\ pc = "gl_groups_wait"
    /\ \E out \in Outcomes :
          /\ SearchBody(GitLab, "org", "Error searching GitLab groups",
                        "GitLab groups matching", cfg.orgFlag, out)
          /\ LET done == Completed(IF out = "err" THEN "err" ELSE "ok",
                              IF out = "nocreate" THEN "fail"
                              ELSE IF out = "ok" /\ cfg.orgFlag THEN "ok" ELSE "none")
             IN  IF out = "ok"
                 THEN /\ inflight' = (inflight \ {Call(GitLab, "org", cur)})
                                         \cup {Call(GitLab, "user", cur)}
                      /\ callLog' = Append(done, Issued(GitLab, "user", cur))
                      /\ pc' = "gl_users_wait"
                 ELSE /\ inflight' = inflight \ {Call(GitLab, "org", cur)}
                      /\ callLog' = done
                      /\ pc' = "gl_projects"
    /\ UNCHANGED <<cfg, env, args, stdin, idx, words, clients, ghErr, glErr, todo,
                   cur, exitCode>>

\* searchGitLabGroupsAndUsers after client.Users.ListUsers returned: the
\* users are reported when -u is set.
searchGitLabGroupsAndUsers_users ==
    /\ pc = "gl_users_wait"
    /\ \E out \in Outcomes :
          /\ SearchBody(GitLab, "user", "Error searching GitLab users",
                        "GitLab users matching", cfg.userFlag, out)
          /\ inflight' = inflight \ {Call(GitLab, "user", cur)}
          /\ callLog' = Completed(IF out = "err" THEN "err" ELSE "ok",
                             IF out = "nocreate" THEN "fail"
                             ELSE IF out = "ok" /\ cfg.userFlag THEN "ok" ELSE "none")
          /\ pc' = "gl_projects"
    /\ UNCHANGED <<cfg, env, args, stdin, idx, words, clients, ghErr, glErr, todo,
                   cur, exitCode>>

\* searchGitLab, -r: searchGitLabProjects sends its request.
searchGitLab_projects ==
    /\ pc = "gl_projects"
    /\ IF cfg.repoFlag
       THEN SendRequest(GitLab, "repo", "gl_projects_wait")
       ELSE pc' = "loop" /\ UNCHANGED <<inflight, callLog>>
    /\ UNCHANGED <<cfg, env, args, stdin, idx, words, clients, ghErr, glErr, todo,
                   cur, files, stdout, exitCode, faults>>

\* searchGitLabProjects after client.Projects.ListProjects returned.
searchGitLabProjects ==
    /\ pc = "gl_projects_wait"
    /\ \E out \in Outcomes :
          SearchReturn(GitLab, "repo", "Error searching GitLab projects",
                       "GitLab projects matching", out, "loop")
    /\ UNCHANGED <<cfg, env, args, stdin, idx, words, clients, ghErr, glErr, todo,
                   cur, exitCode>>

\* ----------------------------------------------------------- specification
Next ==
    \/ validateFlags
    \/ readAndCleanWords_arg
    \/ readAndCleanWords_line
    \/ checkScannerError
    \/ readAndCleanWords
    \/ searchPlatforms
    \/ searchPlatforms_range
    \/ searchPlatforms_github
    \/ searchPlatforms_gitlab
    \/ searchGitHub_org
    \/ searchGitHubOrganizations
    \/ searchGitHub_repo
    \/ searchGitHubRepositories
    \/ searchGitHub_user
    \/ searchGitHubUsers
    \/ searchGitLab_groups
    \/ searchGitLabGroupsAndUsers_groups
    \/ searchGitLabGroupsAndUsers_users
    \/ searchGitLab_projects
    \/ searchGitLabProjects

Spec == Init /\ [][Next]_vars

\* ---------------------------------------------- the program on a phrase
\* The flags without -s and -v, which change the printing only.
PlainConfigs == {c \in Configs : ~c.simpleFlag /\ ~c.verboseFlag}

\* -c is drawn with the input that holds a URL, the only one it changes.
InitPhrase ==
    /\ InitWith(PlainConfigs, PhraseInputs)
    /\ cfg.cleanFlag => \E i \in 1..Len(args) : args[i] = UrlAB

\* The full program, the phrase among its inputs.
SpecPhrase == InitPhrase /\ [][Next]_vars

\* --------------------------------------------------- the word reader alone
A_ == <<" ", "a">>
ATabB == <<"a", " ", "\t", "b">>
ANlB == <<"a", "\n", "b">>
UrlWwwA_B == Http \o <<"s">> \o SchemeSep \o Www \o <<"a", " ", "b", "/", "x">>
VtAVtB == <<VT, "a", VT, "b">>

\* The tokens of a line of standard input: plain, with inner, leading and
\* repeated whitespace, with vertical tabs, hyphenated, and URLs.
LineTokens == {AB, A_B, A_, ATabB, VtAVtB, AhB, UrlAB, UrlWwwA_B}

\* The tokens of an argument: an argument may also hold a newline.
ArgTokens == LineTokens \cup {ANlB}

\* The sequences of at most MaxTokens elements of S.
SeqsUpTo(S) == UNION {[1..n -> S] : n \in 0..MaxTokens}

WordInputs ==
    {[args |-> a, stdin |-> <<>>] : a \in SeqsUpTo(ArgTokens) \ {<<>>}}
        \cup {[args |-> <<>>, stdin |-> l] : l \in SeqsUpTo(LineTokens)}

\* -o alone, with and without -c.
WordConfigs ==
    {c \in Configs : /\ c.orgFlag /\ ~c.repoFlag /\ ~c.userFlag
                     /\ ~c.ghOnlyFlag /\ ~c.glOnlyFlag
                     /\ ~c.simpleFlag /\ ~c.verboseFlag}

InitWords == InitWith(WordConfigs, WordInputs)

NextWords ==
    \/ validateFlags
    \/ readAndCleanWords_arg
    \/ readAndCleanWords_line
    \/ checkScannerError
    \/ readAndCleanWords

\* main from its start to the return of readAndCleanWords.
SpecWords == InitWords /\ [][NextWords]_vars

\* =================================================================== claims
\* The number of input tokens and the i-th of them as it was given.
NTokens == IF Len(args) > 0 THEN Len(args) ELSE Len(stdin)
RawToken(i) == IF Len(args) > 0 THEN args[i] ELSE stdin[i]

\* The i-th token as the reader takes it: a line of standard input without
\* its leading and trailing whitespace.
ReadToken(i) == IF Len(args) > 0 THEN args[i] ELSE TrimSpace(stdin[i])

\* A word with every character of the class S left out.
NoSpace(w, S) == SelectSeq(w, LAMBDA c : c \notin S)

RECURSIVE HyphenJoin(_, _)
\* A word with each run of characters of the class S replaced by one
\* hyphen, from the right.
HyphenJoin(w, S) ==
    IF w = <<>> THEN <<>>
    ELSE LET front == SubSeq(w, 1, Len(w) - 1)
             last == w[Len(w)]
         IN  IF last \notin S THEN Append(HyphenJoin(front, S), last)
             ELSE IF front # <<>> /\ front[Len(front)] \in S
                  THEN HyphenJoin(front, S)
                  ELSE Append(HyphenJoin(front, S), "-")

\* The word a token stands for: its URL-cleaned form when -c is set.
BaseWord(t) == IF cfg.cleanFlag THEN cleanWord(t) ELSE t

\* The three forms of a token are in the word set, S being the white space.
FormsIn(t, S) ==
    /\ BaseWord(t) \in words
    /\ NoSpace(BaseWord(t), S) \in words
    /\ HyphenJoin(BaseWord(t), S) \in words

\* C6 as stated: once readAndCleanWords has returned, the word set holds,
\* for every input token exactly as given (an argument or a whole line of
\* standard input), the token (URL-cleaned under -c), the token without
\* white space and the token with each white space run replaced by a
\* hyphen; and every token adds at most three entries.
C6_FormsOfRawToken ==
    /\ Cardinality(words) <= 3 * idx
    /\ pc = "clients" => \A i \in 1..NTokens : FormsIn(RawToken(i), UnicodeSpace)

\* C6 amended: the same, a line of standard input counting as the line
\* without its leading and trailing white space, and the white space that
\* is removed or replaced being the class \s of the regular expression.
C6_FormsOfReadToken ==
    /\ Cardinality(words) <= 3 * idx
    /\ pc = "clients" => \A i \in 1..NTokens : FormsIn(ReadToken(i), RegexpSpace)

\* C6 witness: the reader has returned after a padded line and, under -c, a
\* URL whose host holds whitespace, four words in all.
C6_Witness ==
    /\ pc = "clients"
    /\ cfg.cleanFlag
    /\ Len(args) = 0
    /\ Len(stdin) = 2
    /\ stdin[1] # TrimSpace(stdin[1])
    /\ cleanWord(stdin[2]) # stdin[2]
    /\ Cardinality(words) = 4

\* C3: with no category flag set the program gets no further than
\* validateFlags: it exits with status 1, no token is read, no client is
\* created and no remote call is issued, whatever the other inputs are.
C3_NoCategoryExitsEarly ==
    ~(cfg.orgFlag \/ cfg.repoFlag \/ cfg.userFlag) =>
        /\ pc \in {"main", "exited"}
        /\ pc = "exited" => exitCode = 1
        /\ idx = 0
        /\ words = {}
        /\ clients = {}
        /\ callLog = <<>>
        /\ inflight = {}

\* C3 witness: the exit, with both tokens set, arguments given and the
\* other flags set.
C3_Witness ==
    /\ ~(cfg.orgFlag \/ cfg.repoFlag \/ cfg.userFlag)
    /\ pc = "exited"
    /\ exitCode = 1
    /\ env.GITHUB_ACCESS_TOKEN /\ env.GITLAB_ACCESS_TOKEN
    /\ Len(args) > 0
    /\ cfg.simpleFlag /\ cfg.verboseFlag /\ cfg.glOnlyFlag

\* The positions of the log holding a call of the platform.
CallsOf(plat) == {i \in 1..Len(callLog) : callLog[i].plat = plat}

\* C5: with -gl and without -gh no GitHub call is ever issued and no GitHub
\* file is written, whether or not the GitHub token is set.
C5_GitLabOnlyNoGitHub ==
    (cfg.glOnlyFlag /\ ~cfg.ghOnlyFlag) =>
        /\ CallsOf(GitHub) = {}
        /\ \A call \in inflight : call.plat # GitHub
        /\ \A c \in Categories : files[FileOf(GitHub, c)] = InitialFiles[FileOf(GitHub, c)]

\* C5 witness: a finished run under -gl with the GitHub token set, in which
\* GitLab was searched.
C5_Witness ==
    /\ cfg.glOnlyFlag /\ ~cfg.ghOnlyFlag
    /\ env.GITHUB_ACCESS_TOKEN
    /\ pc = "done"
    /\ CallsOf(GitLab) # {}

\* The greatest element of a non-empty set of numbers.
Max(S) == CHOOSE x \in S : \A y \in S : y <= x

\* The positions of the log holding a successful call of the pair.
OkCalls(plat, cat) ==
    {i \in 1..Len(callLog) :
        callLog[i].plat = plat /\ callLog[i].cat = cat /\ callLog[i].status = "ok"}

\* Those of them that reached the file: the category flag is set and
\* os.Create did not fail.
WrittenCalls(plat, cat) ==
    {i \in OkCalls(plat, cat) : CatFlag(cat) /\ callLog[i].create # "fail"}

\* The provider's answer to the i-th call of the log.
ResultsOf(i) ==
    Provider(callLog[i].plat, callLog[i].cat, callLog[i].word, cfg.maxFlag)

\* The file of the pair exists and reads, line by line, as the answer to
\* the i-th call: each name ends its line, nothing follows the last one.
HoldsResultsOf(plat, cat, i) ==
    /\ files[FileOf(plat, cat)].exists
    /\ SplitOn(files[FileOf(plat, cat)].data, "\n") = Append(ResultsOf(i), <<>>)

\* C1 as stated: once a pair has had a successful call, its file holds
\* exactly the results of the most recent successful call for the pair.
C1_FileOfLastSuccessfulCall ==
    \A p \in Platforms, c \in Categories :
        OkCalls(p, c) # {} => HoldsResultsOf(p, c, Max(OkCalls(p, c)))

\* C1 amended: the file of a pair holds exactly the results of the most
\* recent successful call for the pair that had its category flag set and
\* whose os.Create succeeded, never an accumulation; before any such call
\* the file is as the run found it.
C1_FileOfLastWrittenCall ==
    \A p \in Platforms, c \in Categories :
        IF WrittenCalls(p, c) # {}
        THEN HoldsResultsOf(p, c, Max(WrittenCalls(p, c)))
        ELSE files[FileOf(p, c)] = InitialFiles[FileOf(p, c)]

\* C1 witness: a pair was written for two words with different results and
\* a later successful call for it could not create the file.
C1_Witness ==
    \E p \in Platforms, c \in Categories :
        /\ Cardinality(WrittenCalls(p, c)) >= 2
        /\ \E i \in WrittenCalls(p, c) :
              ResultsOf(i) # ResultsOf(Max(WrittenCalls(p, c)))
        /\ Max(OkCalls(p, c)) > Max(WrittenCalls(p, c))
        /\ pc = "done"

\* A platform is searched when the other platform's -only flag is not set
\* and its token is set.
Active(plat) ==
    IF plat = GitHub THEN ~cfg.glOnlyFlag /\ env.GITHUB_ACCESS_TOKEN
    ELSE ~cfg.ghOnlyFlag /\ env.GITLAB_ACCESS_TOKEN

\* The call in flight returns in this step, with the given status.
Returns(status) ==
    /\ callLog # <<>>
    /\ callLog[Len(callLog)].status = "pending"
    /\ callLog'[Len(callLog)].status = status

\* The lines this step adds to standard output.
NewLines == SubSeq(stdout', Len(stdout) + 1, Len(stdout'))

\* C2: a remote call that returns an error prints one diagnostic and no
\* result, leaves the files as they are and does not end the run; no run
\* that issued a call exits with status 1, and a finished run has exit
\* status 0 and has searched every word on every platform in use.
C2_ErrorSkipsOnlyTheCall ==
    /\ [][Returns("err") =>
             /\ Len(NewLines) = 1
             /\ NewLines[1].k = "error"
             /\ SubSeq(stdout', 1, Len(stdout)) = stdout
             /\ files' = files
             /\ exitCode' = -1
             /\ pc' \notin {"done", "exited"}]_vars
    /\ [](/\ callLog # <<>> => pc # "exited" /\ exitCode # 1
          /\ pc = "done" =>
                /\ exitCode = 0
                /\ \A w \in words, p \in Platforms :
                      Active(p) => \E i \in CallsOf(p) : callLog[i].word = w)

\* C2 witness: a finished run in which a GitHub call returned an error and
\* was followed by a GitLab call for the same word and by calls for
\* another word.
C2_Witness ==
    /\ pc = "done"
    /\ exitCode = 0
    /\ \E i \in CallsOf(GitHub) :
          /\ callLog[i].status = "err"
          /\ \E j \in CallsOf(GitLab) : j > i /\ callLog[j].word = callLog[i].word
          /\ \E k \in (i + 1)..Len(callLog) : callLog[k].word # callLog[i].word

\* The number of lines of standard output with the given text.
CountMsg(msg) == Cardinality({i \in 1..Len(stdout) : stdout[i].msg = msg})

\* Every word was submitted to every category in use of the platform.
AllSearched(plat) ==
    \A w \in words, c \in Categories :
        CatFlag(c) =>
            \E i \in CallsOf(plat) : callLog[i].cat = c /\ callLog[i].word = w

\* C4 as stated: without GITHUB_ACCESS_TOKEN no GitHub call is issued, the
\* error is printed once, the run is not aborted, and when the GitLab token
\* is set and -gh is not, a finished run has submitted every word to every
\* GitLab category in use.
C4_MissingGitHubToken ==
    ~env.GITHUB_ACCESS_TOKEN =>
        /\ CallsOf(GitHub) = {}
        /\ CountMsg("Error creating GitHub client") =
              (IF pc \in {"main", "read", "clients", "exited"} THEN 0 ELSE 1)
        /\ callLog # <<>> => pc # "exited"
        /\ (pc = "done" /\ env.GITLAB_ACCESS_TOKEN /\ ~cfg.ghOnlyFlag)
              => AllSearched(GitLab)

\* C8 as stated: every call that is issued has its own category flag set,
\* and in a finished run every word was submitted to every category in use
\* of every platform in use, whatever the other calls returned.
C8_CallGatedByOwnFlag ==
    /\ \A i \in 1..Len(callLog) : CatFlag(callLog[i].cat)
    /\ pc = "done" => \A p \in Platforms : Active(p) => AllSearched(p)

\* The bare names of a result list, one line each.
NameLines(results) == [i \in 1..Len(results) |-> Line("name", "", results[i])]

\* No header, empty line or bullet line was printed.
NoHeaderPrinted ==
    \A i \in 1..Len(stdout) : stdout[i].k \notin {"header", "blank", "bullet"}

\* C7 as stated: under -s no header is ever printed, and a successful call
\* adds nothing to standard output but bare names: the results, in the
\* provider's order, when the call's category flag is set.
C7_SimpleOnlyNames ==
    /\ [](cfg.simpleFlag => NoHeaderPrinted)
    /\ [][(cfg.simpleFlag /\ Returns("ok")) =>
             /\ SubSeq(stdout', 1, Len(stdout)) = stdout
             /\ \A j \in 1..Len(NewLines) : NewLines[j].k = "name"
             /\ CatFlag(callLog[Len(callLog)].cat) =>
                   NewLines = NameLines(ResultsOf(Len(callLog)))]_vars

\* C7 amended: under -s no header is ever printed; a successful call whose
\* category flag is set adds the bare names, in the provider's order, and
\* after them one error line when its file cannot be created; a successful
\* call whose category flag is not set adds nothing.
C7_SimpleNamesThenCreateError ==
    /\ [](cfg.simpleFlag => NoHeaderPrinted)
    /\ [][(cfg.simpleFlag /\ Returns("ok")) =>
             /\ SubSeq(stdout', 1, Len(stdout)) = stdout
             /\ NewLines =
                   (IF CatFlag(callLog[Len(callLog)].cat)
                    THEN NameLines(ResultsOf(Len(callLog))) ELSE <<>>)
                   \o (IF callLog'[Len(callLog)].create = "fail"
                       THEN <<Line("error", "open", <<>>)>> ELSE <<>>)]_vars

\* C7 witness: a finished run under -s in which one call printed two names
\* and another could not create its file.
C7_Witness ==
    /\ cfg.simpleFlag
    /\ pc = "done"
    /\ \E i, j \in 1..Len(callLog) :
          /\ callLog[i].create = "ok" /\ Len(ResultsOf(i)) >= 2
          /\ callLog[j].create = "fail"
    /\ \E i \in 1..Len(stdout) : stdout[i].k = "name"

\* The place of a call in the order of one word: GitHub organizations,
\* repositories, users, then GitLab groups, users, projects.
Rank(call) ==
    CASE call.plat = GitHub /\ call.cat = "org"  -> 1
      [] call.plat = GitHub /\ call.cat = "repo" -> 2
      [] call.plat = GitHub /\ call.cat = "user" -> 3
      [] call.plat = GitLab /\ call.cat = "org"  -> 4
      [] call.plat = GitLab /\ call.cat = "user" -> 5
      [] call.plat = GitLab /\ call.cat = "repo" -> 6

\* C9: at most one call is in flight, and it is the last one issued; every
\* earlier call has returned; the calls of one word are consecutive (a
\* later call for the word is preceded by a call for the word) and in
\* rising order: GitHub organizations, repositories, users, then GitLab
\* groups, users, projects.
C9_SequentialOrderedCalls ==
    /\ Cardinality(inflight) <= 1
    /\ \A i \in 1..Len(callLog) :
          /\ callLog[i].status = "pending" =>
                i = Len(callLog)
                /\ inflight = {Call(callLog[i].plat, callLog[i].cat, callLog[i].word)}
          /\ i < Len(callLog) => callLog[i].status \in {"ok", "err"}
    /\ (callLog = <<>> \/ callLog[Len(callLog)].status # "pending") => inflight = {}
    /\ \A i \in 1..(Len(callLog) - 1) :
          callLog[i].word = callLog[i + 1].word =>
              Rank(callLog[i]) < Rank(callLog[i + 1])
    /\ \A i, j \in 1..Len(callLog) :
          (i < j /\ callLog[i].word = callLog[j].word) =>
              callLog[j - 1].word = callLog[i].word

\* C9 witness: both platforms were searched for two words, a call is in
\* flight and an earlier one returned an error.
C9_Witness ==
    /\ Cardinality(inflight) = 1
    /\ CallsOf(GitHub) # {} /\ CallsOf(GitLab) # {}
    /\ \E i, j \in 1..Len(callLog) : callLog[i].word # callLog[j].word
    /\ \E i \in 1..Len(callLog) : callLog[i].status = "err"
    /\ Len(callLog) >= 8

\* The forms of the i-th token that the reader stores.
FormsOf(i) ==
    {BaseWord(ReadToken(i)), NoSpace(BaseWord(ReadToken(i)), RegexpSpace),
     HyphenJoin(BaseWord(ReadToken(i)), RegexpSpace)}

\* The reader has returned.
WordsRead == pc \notin {"main", "read", "exited"}

\* C10: the word set is the set of the forms of the tokens, each once; a
\* token without whitespace contributes a single word; only words of the
\* set are submitted, and no word is submitted twice to one (platform,
\* category) search: the calls of the log are pairwise different.
C10_DedupSubmittedOnce ==
    /\ WordsRead => words = UNION {FormsOf(i) : i \in 1..NTokens}
    /\ WordsRead =>
          \A i \in 1..NTokens :
              NoSpace(RawToken(i), UnicodeSpace) = RawToken(i) =>
                  Cardinality(FormsOf(i)) = 1
    /\ \A i \in 1..Len(callLog) : callLog[i].word \in words
    /\ Cardinality({Call(callLog[i].plat, callLog[i].cat, callLog[i].word) :
                        i \in 1..Len(callLog)}) = Len(callLog)

\* C10 witness: a finished run on a phrase and one of its own variants,
\* three words in all, each submitted.
C10_Witness ==
    /\ pc = "done"
    /\ Len(args) = 2
    /\ args[2] \in FormsOf(1) \ {args[1]}
    /\ Cardinality(words) = 3
    /\ \A w \in words : \E i \in 1..Len(callLog) : callLog[i].word = w

====
